---- MODULE Spec2Model ----
(***************************************************************************)
(* AliExpress Order Tracker: the client-side order list engine of          *)
(* templates/script.js.  The state is the DOM the script works on (the     *)
(* cards attached to #orders-container, each card's checkbox and "hidden"  *)
(* class, the summary/footer slots, the sort and filter buttons), the      *)
(* script's module variables (currentSort, filterState, originalOrder)     *)
(* and localStorage.  One action per event handler; the load sequence is   *)
(* the script's top-level code, run at Init and again by Reload.           *)
(***************************************************************************)
EXTENDS Integers, Sequences, FiniteSets, TLC

VARIABLES
    page,           \* the generated cards, in document order (never changes)
    container,      \* children of #orders-container: the live cards, in display order
    checked,        \* attached card -> its checkbox's checked property
    hidden,         \* attached card -> whether the card carries the class "hidden"
    countText,      \* slot -> the count shown in .summary-text / .footer-text
    totalText,      \* slot -> the total shown in .summary-total / .footer-total
    sortActive,     \* the sort buttons carrying the class "active"
    sortLabel,      \* sort button -> the arrow its label carries
    hideBtn,        \* #hideCheckedBtn: its text and its "active" class
    currentSort,    \* the script's currentSort
    filterState,    \* the script's filterState (a JS number)
    originalOrder,  \* the script's originalOrder
    store,          \* localStorage
    last            \* the event handled last (history, for stating the claims)

domVars  == <<container, checked, hidden, countText, totalText, sortActive, sortLabel, hideBtn>>
jsVars   == <<currentSort, filterState, originalOrder>>
progVars == <<page, domVars, jsVars, store>>
vars     == <<progVars, last>>

----------------------------------------------------------------------------
(* Bounds and the generated page *)

NumCards == 2

Cards == 1..NumCards

\* getItem's null for a key that is not stored.
Absent == "<null>"

\* The kinds of card the generator emits: data-price (a decimal text, here in
\* cents, or no usable number), data-date (an ISO date, here yyyymmdd, or
\* none), and an archive card's checked and disabled checkbox.  flag is what
\* localStorage holds under the card's id when the page is first opened: an
\* archive card may have been an active card of an earlier page.
Pool ==
    << [price |-> [numeric |-> TRUE,  cents |-> 1250], date |-> [present |-> TRUE,  ymd |-> 20240105],
        disabled |-> FALSE, flag |-> Absent],
       [price |-> [numeric |-> TRUE,  cents |-> 730],  date |-> [present |-> FALSE, ymd |-> 0],
        disabled |-> FALSE, flag |-> Absent],
       [price |-> [numeric |-> TRUE,  cents |-> 999],  date |-> [present |-> TRUE,  ymd |-> 20231120],
        disabled |-> TRUE, flag |-> "false"],
       [price |-> [numeric |-> FALSE, cents |-> 0],    date |-> [present |-> TRUE,  ymd |-> 20240105],
        disabled |-> FALSE, flag |-> Absent] >>

\* The page whose first card is the k-th kind of the pool, the next kinds following.
Catalogue(k) == [c \in Cards |-> Pool[((c - 1 + k) % Len(Pool)) + 1]]

Catalogues == {Catalogue(k) : k \in 0..(Len(Pool) - 1)}

Slots == {"summary", "footer"}

SortButtons == {"default", "price", "date", "checked"}

----------------------------------------------------------------------------
(* JavaScript values *)

Num(v) == [nan |-> FALSE, v |-> v]

NaN == [nan |-> TRUE, v |-> 0]

Digits == <<"0", "1", "2", "3", "4", "5", "6", "7", "8", "9">>

\* parseInt of a stored text: a one-digit text is its number, any other text NaN.
parseInt(s) ==
    IF \E d \in DOMAIN Digits : Digits[d] = s
    THEN Num((CHOOSE d \in DOMAIN Digits : Digits[d] = s) - 1)
    ELSE NaN

\* String(n), as setItem stores a number.
numberToString(n) ==
    IF n.nan THEN "NaN"
    ELSE IF n.v \in 0..9 THEN Digits[n.v + 1]
    ELSE "other"

\* The cycle taken modulo 2: "received only" is never reached.
NextFilter_TwoStates(n) == IF n.nan THEN NaN ELSE Num((n.v + 1) % 2)

\* (n + 1) % 3 of JS: NaN stays NaN, the remainder takes the dividend's sign.
NextFilter(n) ==
    IF n.nan THEN NaN
    ELSE IF n.v + 1 >= 0 THEN Num((n.v + 1) % 3)
    ELSE Num(0 - ((0 - (n.v + 1)) % 3))

\* parseFloat(card.dataset.price)
parseFloat(p) == IF p.numeric THEN Num(p.cents) ELSE NaN

\* x || 0
OrZero(x) == IF x.nan THEN 0 ELSE x.v

\* total.toFixed(2).replace('.', ','): the integer part and the two fraction digits.
toFixed2(cents) == [euros |-> cents \div 100, cents |-> cents % 100]

Range(s) == {s[i] : i \in DOMAIN s}

Includes(s, x) == \E i \in DOMAIN s : s[i] = x

NoDuplicates(s) == \A i, j \in DOMAIN s : s[i] = s[j] => i = j

----------------------------------------------------------------------------
(* localStorage: deleted_orders (a JSON text), filter_state, order_<id> *)

\* JSON.stringify of an array of order ids.
stringify(deleted) == [kind |-> "array", items |-> deleted]

NoText == [kind |-> "absent", items |-> <<>>]

FreshStore ==
    [deleted_orders |-> NoText, filter_state |-> Absent, order |-> [c \in Cards |-> Absent]]

\* The JSON texts that parse, but not to an array: 'null', a number, an object.
NonLists == {"null", "number", "object"}

\* getDeletedOrders: JSON.parse(getItem('deleted_orders') || '[]'), [] when
\* the parse throws; a text that parses to no array gives that value (here
\* named by its kind), on which .includes is not callable.
getDeletedOrders(st) ==
    LET raw == st.deleted_orders IN
    IF raw.kind = "absent" THEN <<>>
    ELSE IF raw.kind = "array" THEN raw.items
    ELSE IF raw.kind = "unparseable" THEN <<>>
    ELSE raw.kind

saveDeletedOrders(st, deleted) == [st EXCEPT !.deleted_orders = stringify(deleted)]

\* The id appended without looking for it in the list.
markDeleted_AlwaysPush(st, orderNum) ==
    saveDeletedOrders(st, Append(getDeletedOrders(st), orderNum))

\* The id put at the front of the list (unshift for push).
markDeleted_Unshift(st, orderNum) ==
    LET deleted == getDeletedOrders(st) IN
    IF ~Includes(deleted, orderNum)
    THEN saveDeletedOrders(st, <<orderNum>> \o deleted)
    ELSE st

\* The trash handler's bookkeeping: re-read the list, append the id unless it
\* is there, save.
markDeleted(st, orderNum) ==
    LET deleted == getDeletedOrders(st) IN
    IF ~Includes(deleted, orderNum)
    THEN saveDeletedOrders(st, Append(deleted, orderNum))
    ELSE st

\* The checkbox's first change listener: setItem('order_' + id, cb.checked).
saveChecked(st, c, isChecked) ==
    [st EXCEPT !.order[c] = IF isChecked THEN "true" ELSE "false"]

saveFilterState(st, n) == [st EXCEPT !.filter_state = numberToString(n)]

\* parseInt(getItem('filter_state') || '0')
loadFilterState(st) ==
    IF st.filter_state = Absent \/ st.filter_state = ""
    THEN parseInt("0")
    ELSE parseInt(st.filter_state)

----------------------------------------------------------------------------
(* The DOM *)

Live(cont) == Range(cont)

Remove(cont, c) == SelectSeq(cont, LAMBDA x : x # c)

\* A per-card property of the attached cards once card c is removed.
Detach(f, c) == [x \in (DOMAIN f) \ {c} |-> f[x]]

\* container.appendChild(card) for each card of sorted: each moves to the end.
AppendAll(cont, sorted) ==
    SelectSeq(cont, LAMBDA x : ~Includes(sorted, x)) \o sorted

RECURSIVE SumPrices(_, _)
SumPrices(pg, cards) ==
    IF cards = <<>> THEN 0
    ELSE OrZero(parseFloat(pg[Head(cards)].price)) + SumPrices(pg, Tail(cards))

\* container.querySelectorAll('.order-card:not(.hidden)')
Shown(cont, hid) == SelectSeq(cont, LAMBDA c : ~hid[c])

\* updateCounts selecting '.order-card' (no ':not(.hidden)').
updateCounts_AllCards(pg, cont, hid) ==
    [countText |-> [s \in Slots |-> Len(cont)],
     totalText |-> [s \in Slots |-> toFixed2(SumPrices(pg, cont))]]

\* updateCounts: what it writes into the count slots and the total slots.
updateCounts(pg, cont, hid) ==
    LET cards == Shown(cont, hid)
        count == Len(cards)
        total == SumPrices(pg, cards)
    IN  [countText |-> [s \in Slots |-> count],
         totalText |-> [s \in Slots |-> toFixed2(total)]]

\* updateHideState's button: states[filterState] and the class "active".
hideButton(fs) ==
    [text   |-> IF fs = Num(0) THEN "Show All"
                ELSE IF fs = Num(1) THEN "Hide Received"
                ELSE IF fs = Num(2) THEN "Received Only"
                ELSE "undefined",
     active |-> fs # Num(0)]

\* updateHideState's loop over the attached cards: each card's class "hidden".
applyFilter(fs, cont, chk, hid) ==
    [c \in Live(cont) |->
        IF fs = Num(0) THEN FALSE
        ELSE IF fs = Num(1) THEN chk[c]
        ELSE IF fs = Num(2) THEN ~chk[c]
        ELSE hid[c]]

\* updateHideState: the button, every attached card's class, then updateCounts.
updateHideState(fs, pg, cont, chk, hid) ==
    LET h   == applyFilter(fs, cont, chk, hid)
        cnt == updateCounts(pg, cont, h)
    IN  [hidden |-> h, hideBtn |-> hideButton(fs),
         countText |-> cnt.countText, totalText |-> cnt.totalText]

\* The second change listener left out.
onChangeFilter_NoListener(fs, pg, cont, chk, cur) == cur

\* The checkbox's second change listener: updateHideState() unless filterState
\* is 0; cur is the display as it stands.
onChangeFilter(fs, pg, cont, chk, cur) ==
    IF fs # Num(0) THEN updateHideState(fs, pg, cont, chk, cur.hidden) ELSE cur

\* The trash button's click listener without the confirm() gate.
trashClick_NoConfirm(ok, c, pg, st, cont, chk, cur) ==
    LET cont2 == Remove(cont, c)
        hid2  == Detach(cur.hidden, c)
        cnt   == updateCounts(pg, cont2, hid2)
    IN  [store |-> markDeleted(st, c), container |-> cont2,
         checked |-> Detach(chk, c), hidden |-> hid2,
         countText |-> cnt.countText, totalText |-> cnt.totalText]

\* The trash button's click listener, ok being confirm()'s answer.
trashClick(ok, c, pg, st, cont, chk, cur) ==
    IF ok
    THEN LET cont2 == Remove(cont, c)
             hid2  == Detach(cur.hidden, c)
             cnt   == updateCounts(pg, cont2, hid2)
         IN  [store |-> markDeleted(st, c), container |-> cont2,
              checked |-> Detach(chk, c), hidden |-> hid2,
              countText |-> cnt.countText, totalText |-> cnt.totalText]
    ELSE [store |-> st, container |-> cont, checked |-> chk, hidden |-> cur.hidden,
          countText |-> cur.countText, totalText |-> cur.totalText]

----------------------------------------------------------------------------
(* The sort engine *)

NoSort == [field |-> "null", asc |-> TRUE]

\* The direction carried over to a newly clicked field.
nextSort_KeepDirection(cs, field) ==
    IF cs.field = field
    THEN [cs EXCEPT !.asc = ~cs.asc]
    ELSE [field |-> field, asc |-> cs.asc]

\* toggleSort's first step: flip the direction of the active field, or make
\* the clicked field active, ascending.
nextSort(cs, field) ==
    IF cs.field = field
    THEN [cs EXCEPT !.asc = ~cs.asc]
    ELSE [field |-> field, asc |-> TRUE]

Minus(x, y) == IF x.nan \/ y.nan THEN NaN ELSE Num(x.v - y.v)

Negate(x) == IF x.nan THEN NaN ELSE Num(0 - x.v)

\* currentSort.asc ? diff : -diff
Directed(asc, diff) == IF asc THEN diff ELSE Negate(diff)

\* The comparators of toggleSort, as the number each returns.
priceCompare(pg, asc, a, b) ==
    Directed(asc, Minus(parseFloat(pg[a].price), parseFloat(pg[b].price)))

MaxDate == 99991231

dateKey(d) == IF d.present THEN d.ymd ELSE MaxDate

\* localeCompare of two ISO dates: -1, 0 or 1.
localeCompare(x, y) == IF x < y THEN Num(0 - 1) ELSE IF x > y THEN Num(1) ELSE Num(0)

\* The date comparator without `|| '9999-12-31'`: an absent date compares as
\* the empty string, before every date.
dateCompare_NoSentinel(pg, asc, a, b) ==
    Directed(asc, localeCompare(IF pg[a].date.present THEN pg[a].date.ymd ELSE 0,
                                IF pg[b].date.present THEN pg[b].date.ymd ELSE 0))

dateCompare(pg, asc, a, b) ==
    Directed(asc, localeCompare(dateKey(pg[a].date), dateKey(pg[b].date)))

checkedKey(isChecked) == IF isChecked THEN 0 ELSE 1

checkedCompare(chk, asc, a, b) ==
    Directed(asc, Num(checkedKey(chk[a]) - checkedKey(chk[b])))

\* How Array.prototype.sort reads a comparator's result: its sign, NaN as +0.
SortOrder(v) == IF v.nan THEN 0 ELSE IF v.v < 0 THEN 0 - 1 ELSE IF v.v > 0 THEN 1 ELSE 0

\* A consistent comparator on the set S (ECMAScript, Array.prototype.sort):
\* cmp is a table S x S -> {-1, 0, 1}.
Consistent(S, cmp) ==
    \A a, b, c \in S :
        /\ cmp[a, a] = 0
        /\ (cmp[a, b] < 0) <=> (cmp[b, a] > 0)
        /\ (cmp[a, b] = 0 /\ cmp[b, c] = 0) => cmp[a, c] = 0
        /\ (cmp[a, b] < 0 /\ cmp[b, c] < 0) => cmp[a, c] < 0

IndexOf(s, x) == CHOOSE i \in DOMAIN s : s[i] = x

\* The stable sort of cards under a consistent comparator: each card's place
\* is the number of cards before it (smaller, or equal and earlier).
StableSort(cards, cmp) ==
    LET Before(y, x) ==
            \/ cmp[y, x] < 0
            \/ cmp[y, x] = 0 /\ IndexOf(cards, y) < IndexOf(cards, x)
        Place(x) == Cardinality({y \in Range(cards) : Before(y, x)}) + 1
    IN  [i \in DOMAIN cards |-> CHOOSE x \in Range(cards) : Place(x) = i]

Orderings(cards) ==
    {p \in [DOMAIN cards -> Range(cards)] : \A x \in Range(cards) : \E i \in DOMAIN p : p[i] = x}

\* cards.sort(comparator): stable for a consistent comparator; for an
\* inconsistent one the order is implementation-defined.
ArraySort(cards, cmp) ==
    IF Consistent(Range(cards), cmp) THEN {StableSort(cards, cmp)} ELSE Orderings(cards)

\* The default case leaving the display as it is.
defaultOrder_Keep(orig, cont) == cont

\* The default case without the filter: every card of originalOrder is
\* appended, a deleted one too.
defaultOrder_All(orig, cont) == orig

\* toggleSort's default case: originalOrder.filter(card => container.contains(card))
defaultOrder(orig, cont) == SelectSeq(orig, LAMBDA c : c \in Live(cont))

\* toggleSort's switch: the arrays `sorted` can be.
sortedCards(field, asc, pg, cont, chk, orig) ==
    LET S == Range(cont) IN
    IF field = "price" THEN
        ArraySort(cont, [a \in S, b \in S |-> SortOrder(priceCompare(pg, asc, a, b))])
    ELSE IF field = "date" THEN
        ArraySort(cont, [a \in S, b \in S |-> SortOrder(dateCompare(pg, asc, a, b))])
    ELSE IF field = "checked" THEN
        ArraySort(cont, [a \in S, b \in S |-> SortOrder(checkedCompare(chk, asc, a, b))])
    ELSE {defaultOrder(orig, cont)}

\* The arrow not following the direction: always the ascending one.
sortButtons_AlwaysUp(field, asc) ==
    [active |-> {field},
     label  |-> [b \in SortButtons |->
                    IF b = field /\ field # "default" THEN "up" ELSE "plain"]]

\* toggleSort's button states: the clicked button alone is active, and
\* carries an arrow unless it is Default.
sortButtons(field, asc) ==
    [active |-> {field},
     label  |-> [b \in SortButtons |->
                    IF b = field /\ field # "default"
                    THEN (IF asc THEN "up" ELSE "down")
                    ELSE "plain"]]

----------------------------------------------------------------------------
(* The load sequence: the script's top-level code on the generated page *)

\* The page as generated: every card attached, in document order; an archive
\* card's checkbox checked and disabled, the others unchecked; no card hidden.
PageContainer == [c \in Cards |-> c]

PageChecked(pg) == [c \in Cards |-> pg[c].disabled]

PageHidden == [c \in Cards |-> FALSE]

\* The deleted cards left in place.
removeDeleted_None(cont, deletedOrders) == cont

\* "Hide deleted orders on load": card.remove() for each card deletedOrders includes.
removeDeleted(cont, deletedOrders) ==
    SelectSeq(cont, LAMBDA c : ~Includes(deletedOrders, c))

\* cb.checked = getItem(key): any stored text counts as checked.
restoreChecked_Truthy(pg, st, cont, chk) ==
    [c \in Live(cont) |->
        IF ~pg[c].disabled THEN st.order[c] # Absent ELSE chk[c]]

\* The disabled checkboxes restored like the others.
restoreChecked_NoSkip(pg, st, cont, chk) ==
    [c \in Live(cont) |-> st.order[c] = "true"]

\* "Load saved checkbox states": every attached, enabled checkbox takes
\* getItem('order_' + id) === 'true'.
restoreChecked(pg, st, cont, chk) ==
    [c \in Live(cont) |->
        IF ~pg[c].disabled THEN st.order[c] = "true" ELSE chk[c]]

Load(pg, st) ==
    LET cont == removeDeleted(PageContainer, getDeletedOrders(st))
        chk  == restoreChecked(pg, st, cont, [c \in Live(cont) |-> PageChecked(pg)[c]])
        fs   == loadFilterState(st)
        upd  == updateHideState(fs, pg, cont, chk, [c \in Live(cont) |-> PageHidden[c]])
    IN  [container     |-> cont,
         originalOrder |-> cont,
         checked       |-> chk,
         currentSort   |-> NoSort,
         filterState   |-> fs,
         hidden        |-> upd.hidden,
         hideBtn       |-> upd.hideBtn,
         countText     |-> upd.countText,
         totalText     |-> upd.totalText,
         sortActive    |-> {},
         sortLabel     |-> [b \in SortButtons |-> "plain"]]

Loaded(pg, st) ==
    LET r == Load(pg, st) IN
    /\ container' = r.container
    /\ originalOrder' = r.originalOrder
    /\ checked' = r.checked
    /\ currentSort' = r.currentSort
    /\ filterState' = r.filterState
    /\ hidden' = r.hidden
    /\ hideBtn' = r.hideBtn
    /\ countText' = r.countText
    /\ totalText' = r.totalText
    /\ sortActive' = r.sortActive
    /\ sortLabel' = r.sortLabel

Event(op, c, field) == [op |-> op, card |-> c, field |-> field]

\* The store a page is first opened on: nothing of this page's own, and the
\* old flags of its archive cards.
FirstStore(pg) == [FreshStore EXCEPT !.order = [c \in Cards |-> pg[c].flag]]

Init ==
    /\ page \in Catalogues
    /\ store = FirstStore(page)
    /\ LET r == Load(page, store) IN
        /\ container = r.container
        /\ originalOrder = r.originalOrder
        /\ checked = r.checked
        /\ currentSort = r.currentSort
        /\ filterState = r.filterState
        /\ hidden = r.hidden
        /\ hideBtn = r.hideBtn
        /\ countText = r.countText
        /\ totalText = r.totalText
        /\ sortActive = r.sortActive
        /\ sortLabel = r.sortLabel
    /\ last = Event("load", 0, "")

----------------------------------------------------------------------------
(* The event handlers *)

Display == [hidden |-> hidden, hideBtn |-> hideBtn,
            countText |-> countText, totalText |-> totalText]

Visible == {c \in Live(container) : ~hidden[c]}

\* A click on an enabled checkbox: the box toggles, then its two change
\* listeners run (persist the flag; re-apply the filter).
ToggleCheckbox(c) ==
    /\ c \in Live(container)
    /\ ~page[c].disabled
    /\ checked' = [checked EXCEPT ![c] = ~checked[c]]
    /\ store' = saveChecked(store, c, checked'[c])
    /\ LET upd == onChangeFilter(filterState, page, container, checked', Display) IN
        /\ hidden' = upd.hidden
        /\ hideBtn' = upd.hideBtn
        /\ countText' = upd.countText
        /\ totalText' = upd.totalText
    /\ last' = Event("checkbox", 0, "")
    /\ UNCHANGED <<page, container, sortActive, sortLabel, jsVars>>

\* A click on an archive card's checkbox: the box is disabled, so it does not
\* toggle and no change event is sent (and no listener was added to it).
LockedCheckboxClick(c) ==
    /\ c \in Live(container)
    /\ page[c].disabled
    /\ last' = Event("locked", 0, "")
    /\ UNCHANGED progVars

\* A click on a card's trash button, confirm() answering ok.
TrashClick(c, ok) ==
    /\ c \in Live(container)
    /\ LET r == trashClick(ok, c, page, store, container, checked, Display) IN
        /\ store' = r.store
        /\ container' = r.container
        /\ checked' = r.checked
        /\ hidden' = r.hidden
        /\ countText' = r.countText
        /\ totalText' = r.totalText
    /\ last' = IF ok THEN Event("delete", c, "") ELSE Event("decline", 0, "")
    /\ UNCHANGED <<page, sortActive, sortLabel, hideBtn, jsVars>>

\* A click on a sort button: toggleSort(field).
ToggleSort(field) ==
    LET cs == nextSort(currentSort, field)
        b  == sortButtons(field, cs.asc)
    IN  /\ \E sorted \in sortedCards(field, cs.asc, page, container, checked, originalOrder) :
                container' = AppendAll(container, sorted)
        /\ currentSort' = IF field \in {"price", "date", "checked"}
                          THEN cs ELSE [cs EXCEPT !.field = "null"]
        /\ sortActive' = b.active
        /\ sortLabel' = b.label
        /\ last' = Event("sort", 0, field)
            /\ UNCHANGED <<page, checked, hidden, countText, totalText, hideBtn,
                       filterState, originalOrder, store>>

\* toggleHideChecked: the next state, its persisting, updateHideState.
toggleHideChecked(fs, pg, st, cont, chk, hid) ==
    LET fs2 == NextFilter(fs)
        upd == updateHideState(fs2, pg, cont, chk, hid)
    IN  [filterState |-> fs2, store |-> saveFilterState(st, fs2),
         hidden |-> upd.hidden, hideBtn |-> upd.hideBtn,
         countText |-> upd.countText, totalText |-> upd.totalText]

\* A click on the filter button.
ToggleHideChecked ==
    /\ LET r == toggleHideChecked(filterState, page, store, container, checked, hidden) IN
        /\ filterState' = r.filterState
        /\ store' = r.store
        /\ hidden' = r.hidden
        /\ hideBtn' = r.hideBtn
        /\ countText' = r.countText
        /\ totalText' = r.totalText
    /\ last' = Event("filter", 0, "")
    /\ UNCHANGED <<page, container, checked, sortActive, sortLabel,
                   currentSort, originalOrder>>

\* The page is loaded again: the same generated cards, the same localStorage.
Reload ==
    /\ Loaded(page, store)
    /\ last' = Event("load", 0, "")
    /\ UNCHANGED <<page, store>>

Next ==
    \/ \E c \in Cards : ToggleCheckbox(c)
    \/ \E c \in Cards : LockedCheckboxClick(c)
    \/ \E c \in Cards, ok \in BOOLEAN : TrashClick(c, ok)
    \/ \E field \in SortButtons : ToggleSort(field)
    \/ ToggleHideChecked
    \/ Reload

Spec == Init /\ [][Next]_vars

\* The same page open in a second tab, whose trash handler works on the same
\* localStorage: seen from this tab, an order id joins the persisted list.
OtherTabDelete(c) ==
    /\ store' = markDeleted(store, c)
    /\ last' = Event("othertab", 0, "")
    /\ UNCHANGED <<page, domVars, jsVars>>

InitShared == Init /\ page = Catalogue(1)

NextShared == Next \/ \E c \in Cards : OtherTabDelete(c)

SpecShared == InitShared /\ [][NextShared]_vars

----------------------------------------------------------------------------
(* localStorage.setItem throwing (the store full or unavailable): the        *)
(* exception ends the listener it is thrown in, at the setItem.              *)

\* toggleHideChecked when its setItem throws: filterState is already
\* advanced; updateHideState() is not reached.
ToggleHideCheckedThrows ==
    /\ filterState' = NextFilter(filterState)
    /\ last' = Event("filterThrows", 0, "")
    /\ UNCHANGED <<page, domVars, currentSort, originalOrder, store>>

\* The trash listener when saveDeletedOrders throws (the id is new, so the
\* list is written): card.remove() and updateCounts() are not reached.
TrashClickThrows(c) ==
    /\ c \in Live(container)
    /\ ~Includes(getDeletedOrders(store), c)
    /\ last' = Event("deleteThrows", c, "")
    /\ UNCHANGED progVars

\* A click on an enabled checkbox when the first change listener's setItem
\* throws: the box has toggled, and the second listener still runs.
ToggleCheckboxThrows(c) ==
    /\ c \in Live(container)
    /\ ~page[c].disabled
    /\ checked' = [checked EXCEPT ![c] = ~checked[c]]
    /\ LET upd == onChangeFilter(filterState, page, container, checked', Display) IN
        /\ hidden' = upd.hidden
        /\ hideBtn' = upd.hideBtn
        /\ countText' = upd.countText
        /\ totalText' = upd.totalText
    /\ last' = Event("checkboxThrows", 0, "")
    /\ UNCHANGED <<page, container, sortActive, sortLabel, jsVars, store>>

NextQuota ==
    \/ Next
    \/ ToggleHideCheckedThrows
    \/ \E c \in Cards : TrashClickThrows(c)
    \/ \E c \in Cards : ToggleCheckboxThrows(c)

\* One page is followed: an active card and an archive card.
SpecQuota == InitShared /\ [][NextQuota]_vars

----------------------------------------------------------------------------
(* The page opened on a store written earlier: by another version of the     *)
(* page, by hand, or cut short.                                              *)

\* The filter_state texts a store may hold when the page is opened.
FilterTexts == {Absent, "", "1", "abc", "7"}

\* The deleted_orders texts a store may hold when the page is opened.
DeletedTexts ==
    {NoText, [kind |-> "unparseable", items |-> <<>>]}
        \cup {[kind |-> k, items |-> <<>>] : k \in NonLists}

\* deletedOrders.includes(...) at line 36 throws a TypeError: deletedOrders is
\* no array and the page has a card to test.
includesThrows(st) == st.deleted_orders.kind \in NonLists /\ Cards # {}

\* The page when the script has stopped at line 36: no card removed, no
\* checkbox restored, no listener added, nothing written to the slots or the
\* filter button (they keep the generated page's content, taken to be the
\* figures of the whole page); currentSort, filterState and originalOrder are
\* never initialised, and every function reading them throws.
HaltedPage(pg) ==
    LET cnt == updateCounts(pg, PageContainer, PageHidden) IN
    [container     |-> PageContainer,
     originalOrder |-> <<>>,
     checked       |-> PageChecked(pg),
     currentSort   |-> NoSort,
     filterState   |-> Num(0),
     hidden        |-> PageHidden,
     hideBtn       |-> hideButton(Num(0)),
     countText     |-> cnt.countText,
     totalText     |-> cnt.totalText,
     sortActive    |-> {},
     sortLabel     |-> [b \in SortButtons |-> "plain"]]

\* The script's top-level code, run to its end or to the TypeError.
LoadOrHalt(pg, st) == IF includesThrows(st) THEN HaltedPage(pg) ELSE Load(pg, st)

LoadEvent(st) == IF includesThrows(st) THEN Event("halt", 0, "") ELSE Event("load", 0, "")

Started(r) ==
    /\ container = r.container
    /\ originalOrder = r.originalOrder
    /\ checked = r.checked
    /\ currentSort = r.currentSort
    /\ filterState = r.filterState
    /\ hidden = r.hidden
    /\ hideBtn = r.hideBtn
    /\ countText = r.countText
    /\ totalText = r.totalText
    /\ sortActive = r.sortActive
    /\ sortLabel = r.sortLabel

InitStored ==
    /\ page = Catalogue(1)
    /\ \E d \in DeletedTexts, t \in FilterTexts :
            store = [FirstStore(page) EXCEPT !.deleted_orders = d, !.filter_state = t]
    /\ Started(LoadOrHalt(page, store))
    /\ last = LoadEvent(store)

\* The script ran to its end: its listeners are added and its variables set.
Running == last.op # "halt"

\* A click on an enabled checkbox of a page whose script stopped: the box
\* toggles and no listener hears it.
HaltedToggle(c) ==
    /\ last.op = "halt"
    /\ ~page[c].disabled
    /\ checked' = [checked EXCEPT ![c] = ~checked[c]]
    /\ UNCHANGED <<page, container, hidden, countText, totalText, sortActive,
                   sortLabel, hideBtn, jsVars, store, last>>

ReloadStored ==
    /\ LET r == LoadOrHalt(page, store) IN
        /\ container' = r.container
        /\ originalOrder' = r.originalOrder
        /\ checked' = r.checked
        /\ currentSort' = r.currentSort
        /\ filterState' = r.filterState
        /\ hidden' = r.hidden
        /\ hideBtn' = r.hideBtn
        /\ countText' = r.countText
        /\ totalText' = r.totalText
        /\ sortActive' = r.sortActive
        /\ sortLabel' = r.sortLabel
    /\ last' = LoadEvent(store)
    /\ UNCHANGED <<page, store>>

NextStored ==
    \/ \E c \in Cards : Running /\ ToggleCheckbox(c)
    \/ \E c \in Cards : Running /\ LockedCheckboxClick(c)
    \/ \E c \in Cards, ok \in BOOLEAN : Running /\ TrashClick(c, ok)
    \/ \E field \in SortButtons : Running /\ ToggleSort(field)
    \/ Running /\ ToggleHideChecked
    \/ \E c \in Cards : HaltedToggle(c)
    \/ ReloadStored

SpecStored == InitStored /\ [][NextStored]_vars

----------------------------------------------------------------------------
(* The summary *)

PriceOrZero(c) == IF page[c].price.numeric THEN page[c].price.cents ELSE 0

RECURSIVE SetSum(_)
SetSum(S) ==
    IF S = {} THEN 0
    ELSE LET c == CHOOSE x \in S : TRUE IN PriceOrZero(c) + SetSum(S \ {c})

\* The total a slot shows, read back in cents.
ShownCents(t) == t.euros * 100 + t.cents

\* C1: after the load and after every event, every count slot shows the
\* number of live cards that are not hidden, and every total slot shows the
\* sum of the prices of exactly those cards (no usable price counting as 0),
\* with two fraction digits.
C1_SummaryMatchesVisible ==
    \A s \in Slots :
        /\ countText[s] = Cardinality(Visible)
        /\ totalText[s].cents \in 0..99
        /\ ShownCents(totalText[s]) = SetSum(Visible)

\* A tick has just hidden a priced card and left another priced card on show.
C1_Witness ==
    /\ last.op = "checkbox"
    /\ \E c \in Live(container) : hidden[c] /\ PriceOrZero(c) > 0
    /\ \E c \in Live(container) : ~hidden[c] /\ PriceOrZero(c) > 0

----------------------------------------------------------------------------
(* The filter *)

FilterStates == {Num(0), Num(1), Num(2)}

\* What the filter asks of a card whose checkbox reads isChecked.
HiddenUnder(fs, isChecked) ==
    \/ fs = Num(1) /\ isChecked
    \/ fs = Num(2) /\ ~isChecked

\* C2: with filterState in {0,1,2}, each live card is hidden exactly as
\* filterState and its current checked value say: never under 0, iff checked
\* under 1, iff unchecked under 2; archive cards like the others.
C2_HiddenFollowsFilter ==
    filterState \in FilterStates =>
        \A c \in Live(container) : hidden[c] <=> HiddenUnder(filterState, checked[c])

\* A checkbox was just ticked under "hide received": its card is hidden, and
\* so is an archive card.
C2_Witness ==
    /\ last.op = "checkbox"
    /\ filterState = Num(1)
    /\ \E c \in Live(container) : ~page[c].disabled /\ checked[c] /\ hidden[c]
    /\ \E c \in Live(container) : page[c].disabled /\ checked[c] /\ hidden[c]

\* The display and the store after k further filter clicks in a row.
RECURSIVE Clicks(_, _)
Clicks(k, s) ==
    IF k = 0 THEN s
    ELSE LET r == toggleHideChecked(s.filterState, page, s.store, container, checked, s.hidden)
         IN  Clicks(k - 1, [filterState |-> r.filterState, store |-> r.store, hidden |-> r.hidden])

Here == [filterState |-> filterState, store |-> store, hidden |-> hidden]

VisibleIn(s) == {c \in Live(container) : ~s.hidden[c]}

\* A filter click's step: filterState moves to (filterState + 1) mod 3, its
\* text is what the store then holds, and every card is hidden as the new
\* state asks.
FilterClickStep ==
    last'.op = "filter" =>
        /\ filterState \in FilterStates => filterState' = Num((filterState.v + 1) % 3)
        /\ store'.filter_state = numberToString(filterState')
        /\ filterState' \in FilterStates =>
                \A c \in Live(container') : hidden'[c] <=> HiddenUnder(filterState', checked'[c])

\* C3 as stated: three filter clicks in a row bring back filterState, the
\* persisted value and the visible set.
C3_ThreeClicksRestorePersisted ==
    filterState \in FilterStates =>
        LET s == Clicks(3, Here) IN
        /\ s.filterState = filterState
        /\ s.store.filter_state = store.filter_state
        /\ VisibleIn(s) = Visible

\* Three filter clicks in a row bring back filterState and the visible set,
\* and leave the store holding the text of that filterState: the value it
\* held before, unless it held none.
ThreeClicksRestore ==
    filterState \in FilterStates =>
        LET s == Clicks(3, Here) IN
        /\ s.filterState = filterState
        /\ VisibleIn(s) = Visible
        /\ s.store.filter_state = numberToString(filterState)
        /\ store.filter_state # Absent => s.store.filter_state = store.filter_state

\* No filter state ends the cycle: a click leaves each for another of {0,1,2}.
NoTerminalFilterState ==
    filterState \in FilterStates =>
        LET s == Clicks(1, Here) IN
        s.filterState \in FilterStates \ {filterState}

\* C3 (amended): every filter click sets filterState to (filterState + 1) mod 3,
\* stores its text and re-applies the visibility; three clicks in a row
\* restore filterState and the visible set, the persisted value too unless
\* the entry was absent (it is then "0"); no state ends the cycle.
C3_FilterCycle ==
    /\ [](ThreeClicksRestore /\ NoTerminalFilterState)
    /\ [][FilterClickStep]_vars

\* The third click of a cycle: back at "show all", the store holding "0",
\* with cards of both kinds on show.
C3_Witness ==
    /\ last.op = "filter"
    /\ filterState = Num(0)
    /\ store.filter_state = "0"
    /\ \E c, d \in Visible : checked[c] /\ ~checked[d]

----------------------------------------------------------------------------
(* Reload and deletion *)

PersistedDeleted == store.deleted_orders.items

\* C4: a reload on the same page and the same store brings back the same
\* live cards, the same checked value of every togglable card, the same
\* filterState, visible set, count and total; a fresh store loads as no
\* deletion, every togglable card unchecked, filterState 0.
C4_ReloadRoundTrip ==
    LET r == Load(page, store) IN
    /\ Live(r.container) = Live(container)
    /\ \A c \in Live(container) : ~page[c].disabled => r.checked[c] = checked[c]
    /\ r.filterState = filterState
    /\ {c \in Live(r.container) : ~r.hidden[c]} = Visible
    /\ r.countText = countText
    /\ r.totalText = totalText
    /\ (store = FreshStore /\ last.op = "load") =>
            /\ container = PageContainer
            /\ \A c \in Cards : ~page[c].disabled => ~checked[c]
            /\ filterState = Num(0)

\* Just reloaded with a deletion, a ticked card and "received only" stored.
C4_Witness ==
    /\ last.op = "load"
    /\ PersistedDeleted # <<>>
    /\ filterState = Num(2)
    /\ \E c \in Live(container) :
            ~page[c].disabled /\ checked[c] /\ store.order[c] = "true" /\ ~hidden[c]

\* C5: no live card's order id is in the persisted deleted-set, after the
\* load, after an accepted delete and after any later reload.
C5_NoDeletedCardLive ==
    \A c \in Live(container) : ~Includes(PersistedDeleted, c)

\* Reloaded after a delete: the deleted card is gone, another is live.
C5_Witness ==
    /\ last.op = "load"
    /\ PersistedDeleted # <<>>
    /\ container # <<>>
    /\ originalOrder = container

\* An accepted delete of an id the persisted list already holds leaves the list as it is.
DuplicateDeleteStep ==
    (last'.op = "delete" /\ Includes(PersistedDeleted, last'.card)) =>
        store'.deleted_orders = store.deleted_orders

\* C6: marking an id deleted is idempotent on the persisted list: an accepted
\* delete of an id already in it changes nothing, marking twice gives what
\* marking once gives, and no id is in the list twice.
C6_MarkDeletedIdempotent ==
    /\ [](/\ NoDuplicates(PersistedDeleted)
          /\ \A c \in Cards :
                markDeleted(markDeleted(store, c), c) = markDeleted(store, c))
    /\ [][DuplicateDeleteStep]_vars

\* A card was deleted here after another tab had deleted it (and then
\* another card): its id is in the list, and not as the newest entry.
C6_Witness ==
    /\ last.op = "delete"
    /\ Includes(PersistedDeleted, last.card)
    /\ PersistedDeleted[Len(PersistedDeleted)] # last.card

----------------------------------------------------------------------------
(* Declined deletes, the sort state, the default order, archive cards *)

\* C7: a click on a trash button whose confirmation is declined changes
\* nothing: the live cards and their order, every checked and hidden value,
\* the summary, the sort and filter state, the buttons and the store.
C7_DeclineChangesNothing ==
    [][last'.op = "decline" => UNCHANGED progVars]_vars

\* A delete was declined on a sorted, filtered list with a deletion behind it.
C7_Witness ==
    /\ last.op = "decline"
    /\ currentSort.field = "price"
    /\ filterState = Num(1)
    /\ PersistedDeleted # <<>>
    /\ \E c \in Live(container) : hidden[c]

SortFields == {"price", "date", "checked"}

\* toggleSort's transition of the sort state.
SortClickStep ==
    last'.op = "sort" =>
        LET f == last'.field IN
        /\ f = "default" => currentSort'.field = "null"
        /\ (f \in SortFields /\ currentSort.field = f) =>
                currentSort' = [field |-> f, asc |-> ~currentSort.asc]
        /\ (f \in SortFields /\ currentSort.field # f) =>
                currentSort' = [field |-> f, asc |-> TRUE]

\* C8: the sort state is {none, ascending} after every load; a click on the
\* active field flips the direction, a click on another field makes it
\* active and ascending, a click on Default clears the field.
C8_SortStateTransitions ==
    /\ [](last.op = "load" => currentSort = [field |-> "null", asc |-> TRUE])
    /\ [](currentSort.field \in SortFields \cup {"null"})
    /\ [][SortClickStep]_vars

\* Price was clicked twice in a row on priced cards: price is active,
\* descending, the dearest card first.
C8_Witness ==
    /\ last.op = "sort"
    /\ last.field = "price"
    /\ currentSort = [field |-> "price", asc |-> FALSE]
    /\ Len(container) >= 2
    /\ \A c \in Live(container) : page[c].price.numeric
    /\ \A i, j \in DOMAIN container :
            i < j => page[container[i]].price.cents > page[container[j]].price.cents

\* The page's order, kept to the cards of S.
PageOrder(S) == SelectSeq(PageContainer, LAMBDA c : c \in S)

\* C9: a click on Default makes the display order the original sequence
\* restricted to the cards still live, whatever was sorted, ticked, filtered
\* or deleted before.
C9_DefaultRestoresOriginal ==
    [][(last'.op = "sort" /\ last'.field = "default") =>
            /\ container' = SelectSeq(originalOrder, LAMBDA c : c \in Live(container))
            /\ container' = PageOrder(Live(container))]_vars

\* Default was clicked: the cards stand in page order, though the second is
\* the cheaper, the later dated and the only ticked one.
C9_Witness ==
    /\ last.op = "sort"
    /\ last.field = "default"
    /\ \E i, j \in DOMAIN container :
            /\ i < j
            /\ container[i] < container[j]
            /\ ~checked[container[i]] /\ checked[container[j]]
            /\ PriceOrZero(container[i]) > PriceOrZero(container[j])
            /\ dateKey(page[container[i]].date) < dateKey(page[container[j]].date)

\* C10: an archive card's checkbox keeps the checked value of the page
\* whatever the store holds under its id; a click on it changes nothing; no
\* received flag is ever written under an archive card's id.
C10_ArchiveCardsExcluded ==
    /\ [](\A c \in Live(container) : page[c].disabled => checked[c])
    /\ [][last'.op = "locked" => UNCHANGED progVars]_vars
    /\ [][\A c \in Cards : page[c].disabled => store'.order[c] = store.order[c]]_vars

\* An archive card whose id has an old "false" flag in the store was clicked
\* after a reload: it is still checked.
C10_Witness ==
    /\ last.op = "locked"
    /\ store.filter_state = "2"
    /\ \E c \in Live(container) :
            page[c].disabled /\ store.order[c] = "false" /\ checked[c] /\ ~hidden[c]

----------------------------------------------------------------------------
(* Sorting: round trips, keys, frame *)

\* The key a field sorts by: the parsed price (0 without a usable number),
\* the date (the maximum date when absent), 0 for checked and 1 for unchecked.
SortKey(f, c) ==
    IF f = "price" THEN PriceOrZero(c)
    ELSE IF f = "date" THEN (IF page[c].date.present THEN page[c].date.ymd ELSE MaxDate)
    ELSE checkedKey(checked[c])

DistinctKeys(f) ==
    \A c, d \in Live(container) : c # d => SortKey(f, c) # SortKey(f, d)

SortHere == [currentSort |-> currentSort, container |-> container]

\* What a click on the button of a sort field can make of the sort state and
\* the display order s.
SortClick(f, s) ==
    LET cs == nextSort(s.currentSort, f) IN
    {[currentSort |-> cs, container |-> AppendAll(s.container, sorted)] :
        sorted \in sortedCards(f, cs.asc, page, s.container, checked, originalOrder)}

\* C11: with a field active and the live cards' keys for it pairwise
\* distinct, two clicks in a row on that field's button bring back the
\* display order of before the first.
C11_SortRoundTrip ==
    (currentSort.field \in SortFields /\ DistinctKeys(currentSort.field)) =>
        \A s1 \in SortClick(currentSort.field, SortHere) :
            \A s2 \in SortClick(currentSort.field, s1) :
                s2.container = container

----------------------------------------------------------------------------
(* Failing writes *)

\* C12: a failing write leaves no action half done: after a filter click
\* whose write failed every live card is hidden as the in-memory filterState
\* asks and the summary shows the cards on show; after an accepted delete
\* whose write failed the card is off the display and the count and total
\* are those of the cards left.
C12_WriteFailureDegrades ==
    /\ last.op = "filterThrows" =>
            /\ filterState \in FilterStates =>
                    \A c \in Live(container) : hidden[c] <=> HiddenUnder(filterState, checked[c])
            /\ C1_SummaryMatchesVisible
    /\ last.op = "deleteThrows" =>
            /\ last.card \notin Live(container)
            /\ C1_SummaryMatchesVisible

----------------------------------------------------------------------------
(* Stored values that are not what the page writes *)

\* C13: filterState is one of 0, 1, 2 in every state of a page whose script
\* is running, whatever filter_state held at the load: an absent entry, a
\* text that is no number and a number outside 0..2 all load as 0.
C13_FilterStateInRange ==
    Running =>
        /\ filterState \in FilterStates
        /\ (last.op = "load" /\ store.filter_state \notin {"0", "1", "2"}) =>
                filterState = Num(0)

\* C14: the load never stops at the deleted list: whatever deleted_orders
\* holds, the script runs to its end; a value that is no well-formed list
\* removes no card; the checkboxes are restored from the stored flags, the
\* filter of the stored filter_state is applied and the summary computed.
C14_DeletedLoadNeverFails ==
    /\ Running
    /\ last.op = "load" =>
            /\ store.deleted_orders.kind # "array" => container = PageContainer
            /\ \A c \in Live(container) :
                    ~page[c].disabled => (checked[c] <=> store.order[c] = "true")
            /\ C1_SummaryMatchesVisible
    /\ loadFilterState(store) \in FilterStates =>
            \A c \in Live(container) :
                hidden[c] <=> HiddenUnder(loadFilterState(store), checked[c])

----------------------------------------------------------------------------
(* The display order and the active sort field *)

\* The cards of cont stand in the order of field f's keys, ascending or
\* descending; chk gives the checkboxes the received key is read from.
OrderedBy(f, asc, cont, chk) ==
    LET key(c) == IF f = "checked" THEN checkedKey(chk[c]) ELSE SortKey(f, c) IN
    \A i, j \in DOMAIN cont :
        i < j => IF asc THEN key(cont[i]) <= key(cont[j])
                        ELSE key(cont[i]) >= key(cont[j])

Mutations == {"checkbox", "delete", "filter"}

\* C15: while a sort field is active the display order stays in sync with
\* it: a display ordered by the active field's key in the current direction
\* is still so ordered after a checkbox toggle, an accepted delete or a
\* filter click.
C15_OrderStaysInSync ==
    [][(/\ last'.op \in Mutations
        /\ currentSort.field \in SortFields
        /\ OrderedBy(currentSort.field, currentSort.asc, container, checked))
            => OrderedBy(currentSort'.field, currentSort'.asc, container', checked')]_vars

\* C16: right after a click on Price the display is ordered by the parsed
\* price, a card without a usable price counting as 0: non-decreasing when
\* ascending, non-increasing when descending.
C16_PriceSortNaNAsZero ==
    (last.op = "sort" /\ last.field = "price") =>
        OrderedBy("price", currentSort.asc, container, checked)

\* Card c stands before card d in cont.
Precedes(cont, c, d) == IndexOf(cont, c) < IndexOf(cont, d)

\* A click on Date or Received: the display is then ordered by the field's
\* key in the direction the click leaves, and cards with equal keys stand as
\* they stood before.
KeyedSortStep ==
    (last'.op = "sort" /\ last'.field \in {"date", "checked"}) =>
        LET f == last'.field IN
        /\ currentSort'.field = f
        /\ Live(container') = Live(container)
        /\ OrderedBy(f, currentSort'.asc, container', checked')
        /\ \A c, d \in Live(container) :
                (SortKey(f, c) = SortKey(f, d) /\ Precedes(container, c, d))
                    => Precedes(container', c, d)
        /\ f = "date" =>
                \A c, d \in Live(container) :
                    (~page[c].date.present /\ page[d].date.present) =>
                        IF currentSort'.asc THEN Precedes(container', d, c)
                                            ELSE Precedes(container', c, d)
        /\ f = "checked" =>
                \A c, d \in Live(container) :
                    (checked[c] /\ ~checked[d]) =>
                        IF currentSort'.asc THEN Precedes(container', c, d)
                                            ELSE Precedes(container', d, c)

\* C17: right after a click on Date or Received the display is ordered by
\* that field's key in the resulting direction, stable on ties in both
\* directions: an absent date counts as the maximum date (last ascending,
\* first descending); received is 0 for checked, 1 for unchecked (checked
\* first ascending, unchecked first descending).
C17_DateReceivedSort == [][KeyedSortStep]_vars

\* Date was clicked a second time: descending, the card without a date moved
\* up to the first place, before a dated card.
C17_Witness ==
    /\ last.op = "sort"
    /\ last.field = "date"
    /\ currentSort = [field |-> "date", asc |-> FALSE]
    /\ Len(container) = NumCards
    /\ ~page[container[1]].date.present
    /\ page[container[2]].date.present
    /\ container[1] > container[2]

\* C18: a sort click only permutes the display: the same live cards, each
\* once, hidden ones too; every card's price and date, checked value and
\* hidden status, the count and total shown, filterState, the filter button
\* and every stored entry are as before.
C18_SortOnlyPermutes ==
    [][last'.op = "sort" =>
            /\ Live(container') = Live(container)
            /\ Len(container') = Len(container)
            /\ UNCHANGED <<page, checked, hidden, countText, totalText,
                           hideBtn, filterState, store>>]_vars

\* A sort click has just moved a hidden card to the front of a display that
\* still holds every card, with a flag stored and a filter at work.
C18_Witness ==
    /\ last.op = "sort"
    /\ Len(container) = NumCards
    /\ container[1] > container[2]
    /\ hidden[container[1]]
    /\ ~hidden[container[2]]
    /\ filterState # Num(0)
    /\ \E c \in Cards : store.order[c] = "true"

----------------------------------------------------------------------------
(* The sort buttons *)

\* The active field's button carries the arrow of the direction, and no
\* other button carries an arrow.
ArrowOnActiveField ==
    \A b \in SortButtons :
        sortLabel[b] = IF b = currentSort.field
                       THEN (IF currentSort.asc THEN "up" ELSE "down")
                       ELSE "plain"

\* C19 as stated: exactly one sort control is active when the field is price,
\* date or received, and none when the field is none; the arrow is as the
\* direction says and on the active control only.
C19_NoneActiveWithoutField ==
    /\ currentSort.field \in SortFields => Cardinality(sortActive) = 1
    /\ currentSort.field = "null" => sortActive = {}
    /\ ArrowOnActiveField

\* C19 (amended): with the field price, date or received, exactly that
\* field's control is active; with the field none, no control is active
\* after a load and the Default control alone is active once Default was
\* selected; a click makes the clicked control the active one; the active
\* field's label carries the up arrow iff ascending and the down arrow iff
\* not, and no other label carries an arrow.
C19_OneActiveSortControl ==
    /\ [](/\ currentSort.field \in SortFields => sortActive = {currentSort.field}
          /\ currentSort.field = "null" => sortActive \in {{}, {"default"}}
          /\ last.op = "load" => sortActive = {}
          /\ ArrowOnActiveField)
    /\ [][last'.op = "sort" => sortActive' = {last'.field}]_vars

\* Default was selected on a list with a deletion behind it: the field is
\* none, the Default control is the active one and no label carries an arrow.
C19_Witness ==
    /\ last.op = "sort"
    /\ last.field = "default"
    /\ currentSort.field = "null"
    /\ sortActive = {"default"}
    /\ \A b \in SortButtons : sortLabel[b] = "plain"
    /\ PersistedDeleted # <<>>
    /\ container # <<>>

----------------------------------------------------------------------------
(* The persisted list of deleted orders over time *)

IsPrefix(s, t) == Len(s) <= Len(t) /\ \A i \in DOMAIN s : t[i] = s[i]

\* One step on the persisted list: what it held stays, in place; an accepted
\* delete of an id it does not hold appends that id to the list as the store
\* holds it then (another tab's deletions included); any other action of
\* this page leaves it as it is.
AppendOnlyStep ==
    /\ IsPrefix(PersistedDeleted, PersistedDeleted')
    /\ (last'.op = "delete" /\ ~Includes(PersistedDeleted, last'.card)) =>
            PersistedDeleted' = Append(PersistedDeleted, last'.card)
    /\ last'.op \notin {"delete", "othertab"} =>
            store'.deleted_orders = store.deleted_orders

\* C20: the persisted deleted list is append-only: across every action the
\* list of before is a prefix of the list of after; an accepted delete of a
\* new id appends exactly that id at the end of the list re-read from the
\* store; every other action leaves the list unchanged; no id is ever
\* removed or moved.
C20_DeletedListAppendOnly == [][AppendOnlyStep]_vars

\* A card was deleted here after another tab had deleted a card this tab
\* still shows: the list holds the other tab's id first, then this one.
C20_Witness ==
    /\ last.op = "delete"
    /\ Len(PersistedDeleted) = 2
    /\ PersistedDeleted[2] = last.card
    /\ PersistedDeleted[1] \in Live(container)

====
